---- MODULE Spec2Model ----
(***************************************************************************)
(* Model of src/app/page.tsx: the decision engine calculateVerdict and the *)
(* Home component that drives it: the operator's actions, the calls to the *)
(* worker and sentinel agents and the handling of their responses.         *)
(*                                                                         *)
(* calculateVerdict computes in JavaScript numbers, i.e. IEEE-754 binary64 *)
(* with round-to-nearest-even.  A non-negative double is modelled exactly, *)
(* as the integer  value * 2^58  held in four limbs of 20 bits, least      *)
(* significant first.  Every double that the engine can produce from       *)
(* scores in 0..MaxScore is a multiple of 2^-58 below 2^14, so the         *)
(* representation is exact and the rounding of every operation is the      *)
(* rounding binary64 performs.                                             *)
(***************************************************************************)
EXTENDS Integers, Sequences, FiniteSets, TLC

VARIABLES
  scores,   \* the RiskScores handed to calculateVerdict
  result,   \* the Verdict it returned, NoVerdict before it has returned
  pc        \* "ready" before the call, "returned" after it

\* The state of the Home component (useState) and of its environment.
VARIABLES
  currentStep, taskInput, workerPlan, sentinelResult, verdict,
  loadingWorker, loadingSentinel, error, showExplanations,
  workerCalls,     \* messages of the worker calls awaiting their response
  sentinelCalls,   \* messages of the sentinel calls awaiting their response
  engineCalls,     \* number of calls of calculateVerdict made by evaluatePlan
  plansReturned,   \* the plans that successful worker calls have returned
  verdictPlan,     \* the plan of the sentinel call that yielded the verdict
  staleWorker,     \* per worker call in flight: handleReset ran since its start
  staleSentinel,   \* per sentinel call in flight: handleReset ran since its start
  sinceReset       \* handleReset ran and no call started after it has succeeded

engineVars == <<scores, result, pc>>

homeVars ==
  <<currentStep, taskInput, workerPlan, sentinelResult, verdict,
    loadingWorker, loadingSentinel, error, showExplanations,
    workerCalls, sentinelCalls, engineCalls, plansReturned,
    verdictPlan, staleWorker, staleSentinel, sinceReset>>

vars == <<engineVars, homeVars>>

\* Largest value of a risk dimension of a well-formed RiskScores.
MaxScore == 3

\* Longest task description typed, number of distinct plans the worker
\* returns, and the value at which the count of engine calls stops.
MaxLen == 2
MaxPlans == 2
MaxEngineCalls == 2

(***************************************************************************)
(* Exact non-negative integers of up to 80 bits.                           *)
(***************************************************************************)
Base == 2^20

BigZero == <<0, 0, 0, 0>>

BigAdd(a, b) ==
  LET s1 == a[1] + b[1]
      s2 == a[2] + b[2] + (s1 \div Base)
      s3 == a[3] + b[3] + (s2 \div Base)
      s4 == a[4] + b[4] + (s3 \div Base)
  IN  <<s1 % Base, s2 % Base, s3 % Base, s4>>

\* a - b, for a >= b
BigSub(a, b) ==
  LET d1 == a[1] - b[1]
      b1 == IF d1 < 0 THEN 1 ELSE 0
      d2 == a[2] - b[2] - b1
      b2 == IF d2 < 0 THEN 1 ELSE 0
      d3 == a[3] - b[3] - b2
      b3 == IF d3 < 0 THEN 1 ELSE 0
      d4 == a[4] - b[4] - b3
  IN  <<d1 + b1 * Base, d2 + b2 * Base, d3 + b3 * Base, d4>>

\* a * n, for 0 <= n <= 1000
BigMulSmall(a, n) ==
  LET p1 == a[1] * n
      p2 == a[2] * n + (p1 \div Base)
      p3 == a[3] * n + (p2 \div Base)
      p4 == a[4] * n + (p3 \div Base)
  IN  <<p1 % Base, p2 % Base, p3 % Base, p4>>

\* quotient and remainder of a by n, for 1 <= n <= 1000
BigDivSmall(a, n) ==
  LET t4 == a[4]
      t3 == (t4 % n) * Base + a[3]
      t2 == (t3 % n) * Base + a[2]
      t1 == (t2 % n) * Base + a[1]
  IN  [quot |-> <<t1 \div n, t2 \div n, t3 \div n, t4 \div n>>, rem |-> t1 % n]

BigLess(a, b) ==
  \/ a[4] < b[4]
  \/ a[4] = b[4] /\ a[3] < b[3]
  \/ a[4] = b[4] /\ a[3] = b[3] /\ a[2] < b[2]
  \/ a[4] = b[4] /\ a[3] = b[3] /\ a[2] = b[2] /\ a[1] < b[1]

BigLeq(a, b) == ~BigLess(b, a)

RECURSIVE BitLen(_)
BitLen(n) == IF n = 0 THEN 0 ELSE 1 + BitLen(n \div 2)

BigBitLen(a) ==
  IF a[4] # 0 THEN 60 + BitLen(a[4])
  ELSE IF a[3] # 0 THEN 40 + BitLen(a[3])
  ELSE IF a[2] # 0 THEN 20 + BitLen(a[2])
  ELSE BitLen(a[1])

(***************************************************************************)
(* binary64 arithmetic on the scaled representation.                       *)
(***************************************************************************)
\* The 53-bit significand of binary64.
Precision == 53

\* Round the exact value x to the nearest double, ties to even.  The unit
\* in the last place of a value of bit length len is 2^(len - Precision).
RoundToDouble(x) ==
  LET len == BigBitLen(x)
  IN  IF len <= Precision THEN x
      ELSE LET ulp  == 2^(len - Precision)
               r    == x[1] % ulp
               odd  == (x[1] \div ulp) % 2 = 1
               down == <<x[1] - r, x[2], x[3], x[4]>>
           IN  IF 2 * r > ulp \/ (2 * r = ulp /\ odd)
               THEN BigAdd(down, <<ulp, 0, 0, 0>>)
               ELSE down

\* a + b in binary64
FAdd(a, b) == RoundToDouble(BigAdd(a, b))

\* a - b in binary64, for a >= b
FSub(a, b) == RoundToDouble(BigSub(a, b))

\* a * n in binary64, n a small non-negative integer
FMul(a, n) == RoundToDouble(BigMulSmall(a, n))

\* a / n in binary64, n a small positive integer: the exact quotient a/n is
\* rounded to the nearest double, ties to even.
FDiv(a, n) ==
  IF a = BigZero THEN BigZero
  ELSE LET d    == BigDivSmall(a, n)
           len  == BigBitLen(d.quot)
           ulp  == IF len <= Precision THEN 1 ELSE 2^(len - Precision)
           low  == d.quot[1] % ulp
           rem  == low * n + d.rem
           odd  == (d.quot[1] \div ulp) % 2 = 1
           down == <<d.quot[1] - low, d.quot[2], d.quot[3], d.quot[4]>>
       IN  IF 2 * rem > n * ulp \/ (2 * rem = n * ulp /\ odd)
           THEN BigAdd(down, <<ulp, 0, 0, 0>>)
           ELSE down

FMin(a, b) == IF BigLess(b, a) THEN b ELSE a

\* The double of the integer n, 0 <= n <= 1000: n * 2^58.
FromInt(n) == BigMulSmall(<<0, 0, 2^18, 0>>, n)

(***************************************************************************)
(* The number literals of calculateVerdict as doubles (value * 2^58).      *)
(* 0.25 is exact; 0.15, 0.2, 0.1 and 0.05 are the nearest doubles,         *)
(* 0x3FC3333333333333, 0x3FC999999999999A, 0x3FB999999999999A and          *)
(* 0x3FA999999999999A.                                                     *)
(***************************************************************************)
WeightIrreversibility == <<0, 0, 65536, 0>>
WeightExternalImpact  == <<0, 0, 65536, 0>>
WeightFinancial       == <<629144, 629145, 39321, 0>>
WeightSafety          == <<838864, 838860, 52428, 0>>
WeightMissingContext  == <<419432, 419430, 26214, 0>>
WeightPolicyViolation == <<209716, 209715, 13107, 0>>

ApproveBelow == <<0, 0, 262144, 0>>   \* 1.0
NoticeBelow  == <<0, 0, 393216, 0>>   \* 1.5
ModifyBelow  == <<0, 0, 524288, 0>>   \* 2.0
Hundred      == <<0, 0, 0, 25>>       \* 100

(***************************************************************************)
(* Types                                                                   *)
(***************************************************************************)
Dimension == 0..MaxScore

RiskScores ==
  [irreversibility : Dimension, external_impact : Dimension,
   financial : Dimension, safety : Dimension,
   missing_context : Dimension, policy_violation : Dimension]

VerdictType ==
  {"APPROVE", "APPROVE_WITH_NOTICE", "ASK_FOR_CLARIFICATION", "MODIFY", "BLOCK"}

Verdict(type, confidence, weightedScore, triggeredRules) ==
  [type |-> type, confidence |-> confidence,
   weightedScore |-> weightedScore, triggeredRules |-> triggeredRules]

\* No Verdict: the value of a call that has not returned one.
NoVerdict == Verdict("null", BigZero, BigZero, <<>>)

RuleSafety       == "CRITICAL: Safety score >= 3"
RuleIrreversible == "CRITICAL: Irreversibility >= 3 AND External Impact >= 2"
RulePolicy       == "CRITICAL: Policy Violation >= 3"
RuleBelow10      == "Weighted score < 1.0"
RuleBelow15      == "Weighted score < 1.5"
RuleMissing      == "Missing Context >= 2"
RuleBelow20      == "Weighted score < 2.0"
RuleAtLeast20    == "Weighted score >= 2.0"

(***************************************************************************)
(* calculateVerdict                                                        *)
(***************************************************************************)
\* The weighted sum, added left to right, every product and every sum
\* rounded to a double.
WeightedScore(s) ==
  FAdd(FAdd(FAdd(FAdd(FAdd(FMul(WeightIrreversibility, s.irreversibility),
                           FMul(WeightExternalImpact, s.external_impact)),
                      FMul(WeightFinancial, s.financial)),
                 FMul(WeightSafety, s.safety)),
            FMul(WeightMissingContext, s.missing_context)),
       FMul(WeightPolicyViolation, s.policy_violation))

\* Confidence with the normalisation by 3 left out.
Confidence_NotNormalised(weightedScore) ==
  LET part == FMul(weightedScore, 100)
  IN  IF BigLess(Hundred, part) THEN BigZero
      ELSE FMin(Hundred, FSub(Hundred, part))

\* Math.max(0, Math.min(100, 100 - (weightedScore / 3) * 100)); a negative
\* difference is replaced by 0 by Math.max.
Confidence(weightedScore) ==
  LET part == FMul(FDiv(weightedScore, 3), 100)
  IN  IF BigLess(Hundred, part) THEN BigZero
      ELSE FMin(Hundred, FSub(Hundred, part))

\* The ladder without its final return.
Thresholds_NoFinalReturn(s, weightedScore, confidence) ==
  IF BigLess(weightedScore, ApproveBelow)
  THEN Verdict("APPROVE", confidence, weightedScore, <<RuleBelow10>>)
  ELSE IF BigLess(weightedScore, NoticeBelow)
  THEN Verdict("APPROVE_WITH_NOTICE", confidence, weightedScore, <<RuleBelow15>>)
  ELSE IF s.missing_context >= 2
  THEN Verdict("ASK_FOR_CLARIFICATION", confidence, weightedScore, <<RuleMissing>>)
  ELSE IF BigLess(weightedScore, ModifyBelow)
  THEN Verdict("MODIFY", confidence, weightedScore, <<RuleBelow20>>)
  ELSE NoVerdict

\* The ladder with the missing-context rule after the 2.0 threshold.
Thresholds_MissingAfterModify(s, weightedScore, confidence) ==
  IF BigLess(weightedScore, ApproveBelow)
  THEN Verdict("APPROVE", confidence, weightedScore, <<RuleBelow10>>)
  ELSE IF BigLess(weightedScore, NoticeBelow)
  THEN Verdict("APPROVE_WITH_NOTICE", confidence, weightedScore, <<RuleBelow15>>)
  ELSE IF BigLess(weightedScore, ModifyBelow)
  THEN Verdict("MODIFY", confidence, weightedScore, <<RuleBelow20>>)
  ELSE IF s.missing_context >= 2
  THEN Verdict("ASK_FOR_CLARIFICATION", confidence, weightedScore, <<RuleMissing>>)
  ELSE Verdict("BLOCK", confidence, weightedScore, <<RuleAtLeast20>>)

\* The ladder with its first two thresholds in the wrong order.
Thresholds_NoticeFirst(s, weightedScore, confidence) ==
  IF BigLess(weightedScore, NoticeBelow)
  THEN Verdict("APPROVE_WITH_NOTICE", confidence, weightedScore, <<RuleBelow15>>)
  ELSE IF BigLess(weightedScore, ApproveBelow)
  THEN Verdict("APPROVE", confidence, weightedScore, <<RuleBelow10>>)
  ELSE IF s.missing_context >= 2
  THEN Verdict("ASK_FOR_CLARIFICATION", confidence, weightedScore, <<RuleMissing>>)
  ELSE IF BigLess(weightedScore, ModifyBelow)
  THEN Verdict("MODIFY", confidence, weightedScore, <<RuleBelow20>>)
  ELSE Verdict("BLOCK", confidence, weightedScore, <<RuleAtLeast20>>)

\* The ladder with the 1.5 threshold inclusive.
Thresholds_NoticeInclusive(s, weightedScore, confidence) ==
  IF BigLess(weightedScore, ApproveBelow)
  THEN Verdict("APPROVE", confidence, weightedScore, <<RuleBelow10>>)
  ELSE IF BigLeq(weightedScore, NoticeBelow)
  THEN Verdict("APPROVE_WITH_NOTICE", confidence, weightedScore, <<RuleBelow15>>)
  ELSE IF s.missing_context >= 2
  THEN Verdict("ASK_FOR_CLARIFICATION", confidence, weightedScore, <<RuleMissing>>)
  ELSE IF BigLess(weightedScore, ModifyBelow)
  THEN Verdict("MODIFY", confidence, weightedScore, <<RuleBelow20>>)
  ELSE Verdict("BLOCK", confidence, weightedScore, <<RuleAtLeast20>>)

\* The ladder with the 2.0 threshold inclusive.
Thresholds_ModifyInclusive(s, weightedScore, confidence) ==
  IF BigLess(weightedScore, ApproveBelow)
  THEN Verdict("APPROVE", confidence, weightedScore, <<RuleBelow10>>)
  ELSE IF BigLess(weightedScore, NoticeBelow)
  THEN Verdict("APPROVE_WITH_NOTICE", confidence, weightedScore, <<RuleBelow15>>)
  ELSE IF s.missing_context >= 2
  THEN Verdict("ASK_FOR_CLARIFICATION", confidence, weightedScore, <<RuleMissing>>)
  ELSE IF BigLeq(weightedScore, ModifyBelow)
  THEN Verdict("MODIFY", confidence, weightedScore, <<RuleBelow20>>)
  ELSE Verdict("BLOCK", confidence, weightedScore, <<RuleAtLeast20>>)

\* The ladder with the missing-context rule consulted first.
Thresholds_MissingFirst(s, weightedScore, confidence) ==
  IF s.missing_context >= 2
  THEN Verdict("ASK_FOR_CLARIFICATION", confidence, weightedScore, <<RuleMissing>>)
  ELSE IF BigLess(weightedScore, ApproveBelow)
  THEN Verdict("APPROVE", confidence, weightedScore, <<RuleBelow10>>)
  ELSE IF BigLess(weightedScore, NoticeBelow)
  THEN Verdict("APPROVE_WITH_NOTICE", confidence, weightedScore, <<RuleBelow15>>)
  ELSE IF BigLess(weightedScore, ModifyBelow)
  THEN Verdict("MODIFY", confidence, weightedScore, <<RuleBelow20>>)
  ELSE Verdict("BLOCK", confidence, weightedScore, <<RuleAtLeast20>>)

\* The threshold ladder, first match wins.
Thresholds(s, weightedScore, confidence) ==
  IF BigLess(weightedScore, ApproveBelow)
  THEN Verdict("APPROVE", confidence, weightedScore, <<RuleBelow10>>)
  ELSE IF BigLess(weightedScore, NoticeBelow)
  THEN Verdict("APPROVE_WITH_NOTICE", confidence, weightedScore, <<RuleBelow15>>)
  ELSE IF s.missing_context >= 2
  THEN Verdict("ASK_FOR_CLARIFICATION", confidence, weightedScore, <<RuleMissing>>)
  ELSE IF BigLess(weightedScore, ModifyBelow)
  THEN Verdict("MODIFY", confidence, weightedScore, <<RuleBelow20>>)
  ELSE Verdict("BLOCK", confidence, weightedScore, <<RuleAtLeast20>>)

\* calculateVerdict with the irreversibility override tested before safety.
calculateVerdict_IrreversibleFirst(s) ==
  IF s.irreversibility >= 3 /\ s.external_impact >= 2
  THEN Verdict("BLOCK", Hundred, BigZero, <<RuleIrreversible>>)
  ELSE IF s.safety >= 3
  THEN Verdict("BLOCK", Hundred, BigZero, <<RuleSafety>>)
  ELSE IF s.policy_violation >= 3
  THEN Verdict("BLOCK", Hundred, BigZero, <<RulePolicy>>)
  ELSE Thresholds(s, WeightedScore(s), Confidence(WeightedScore(s)))

\* calculateVerdict with the policy override tested before irreversibility.
calculateVerdict_PolicyFirst(s) ==
  IF s.safety >= 3
  THEN Verdict("BLOCK", Hundred, BigZero, <<RuleSafety>>)
  ELSE IF s.policy_violation >= 3
  THEN Verdict("BLOCK", Hundred, BigZero, <<RulePolicy>>)
  ELSE IF s.irreversibility >= 3 /\ s.external_impact >= 2
  THEN Verdict("BLOCK", Hundred, BigZero, <<RuleIrreversible>>)
  ELSE Thresholds(s, WeightedScore(s), Confidence(WeightedScore(s)))

\* calculateVerdict with the policy override strict (> 3).
calculateVerdict_PolicyStrict(s) ==
  IF s.safety >= 3
  THEN Verdict("BLOCK", Hundred, BigZero, <<RuleSafety>>)
  ELSE IF s.irreversibility >= 3 /\ s.external_impact >= 2
  THEN Verdict("BLOCK", Hundred, BigZero, <<RuleIrreversible>>)
  ELSE IF s.policy_violation > 3
  THEN Verdict("BLOCK", Hundred, BigZero, <<RulePolicy>>)
  ELSE Thresholds(s, WeightedScore(s), Confidence(WeightedScore(s)))

\* calculateVerdict whose overrides return the computed weighted score.
calculateVerdict_OverrideKeepsScore(s) ==
  IF s.safety >= 3
  THEN Verdict("BLOCK", Hundred, WeightedScore(s), <<RuleSafety>>)
  ELSE IF s.irreversibility >= 3 /\ s.external_impact >= 2
  THEN Verdict("BLOCK", Hundred, WeightedScore(s), <<RuleIrreversible>>)
  ELSE IF s.policy_violation >= 3
  THEN Verdict("BLOCK", Hundred, WeightedScore(s), <<RulePolicy>>)
  ELSE Thresholds(s, WeightedScore(s), Confidence(WeightedScore(s)))

\* calculateVerdict without the irreversibility/external-impact override.
calculateVerdict_NoIrreversibleOverride(s) ==
  IF s.safety >= 3
  THEN Verdict("BLOCK", Hundred, BigZero, <<RuleSafety>>)
  ELSE IF s.policy_violation >= 3
  THEN Verdict("BLOCK", Hundred, BigZero, <<RulePolicy>>)
  ELSE Thresholds(s, WeightedScore(s), Confidence(WeightedScore(s)))

\* calculateVerdict with the irreversibility override on external_impact
\* equal to 2.
calculateVerdict_ExternalExact(s) ==
  IF s.safety >= 3
  THEN Verdict("BLOCK", Hundred, BigZero, <<RuleSafety>>)
  ELSE IF s.irreversibility >= 3 /\ s.external_impact = 2
  THEN Verdict("BLOCK", Hundred, BigZero, <<RuleIrreversible>>)
  ELSE IF s.policy_violation >= 3
  THEN Verdict("BLOCK", Hundred, BigZero, <<RulePolicy>>)
  ELSE Thresholds(s, WeightedScore(s), Confidence(WeightedScore(s)))

\* Hard overrides first, then the weighted score and the ladder.
calculateVerdict(s) ==
  IF s.safety >= 3
  THEN Verdict("BLOCK", Hundred, BigZero, <<RuleSafety>>)
  ELSE IF s.irreversibility >= 3 /\ s.external_impact >= 2
  THEN Verdict("BLOCK", Hundred, BigZero, <<RuleIrreversible>>)
  ELSE IF s.policy_violation >= 3
  THEN Verdict("BLOCK", Hundred, BigZero, <<RulePolicy>>)
  ELSE Thresholds(s, WeightedScore(s), Confidence(WeightedScore(s)))

(***************************************************************************)
(* The values of the Home component                                        *)
(***************************************************************************)
\* null, and a present value v, of a nullable field
Null == <<>>
Some(v) == <<v>>

\* workerPlan: null, or one of the plans the worker returns
NoPlan == 0
Plans == 1..MaxPlans

\* Task descriptions: strings over a blank and a letter.
Chars == {" ", "a"}
TaskInputs == UNION {[1..n -> Chars] : n \in 0..MaxLen}

\* String.prototype.trim
RECURSIVE TrimStart(_)
TrimStart(t) ==
  IF t # <<>> /\ Head(t) = " " THEN TrimStart(Tail(t)) ELSE t

RECURSIVE TrimEnd(_)
TrimEnd(t) ==
  IF t # <<>> /\ t[Len(t)] = " " THEN TrimEnd(SubSeq(t, 1, Len(t) - 1)) ELSE t

Trim(t) == TrimEnd(TrimStart(t))

\* JSON.stringify({ plan: workerPlan })
PlanMessage(plan) == [plan |-> plan]

ErrorNoTask   == "Please enter a task description"
ErrorNoPlan   == "Failed to generate plan"
ErrorNoEval   == "Failed to evaluate plan"
ErrorNetwork  == "Network error occurred"

\* The message of a failure response: absent, empty, or a text.
Messages == {Null, Some(""), Some("agent unavailable")}

\* MessageOr that ignores the message of the response.
MessageOr_AlwaysFallback(message, fallback) == Some(fallback)

\* result.response.message || fallback
MessageOr(message, fallback) ==
  IF message = Null \/ message = Some("") THEN Some(fallback) ELSE message

\* The outcomes of callAIAgent(taskInput, WORKER_AGENT_ID): a success
\* response with a plan, one whose result has no plan, one without a result,
\* a failure response with or without a message, and a rejected promise.
WorkerResponses ==
  [kind : {"plan"}, plan : Plans, message : {Null}]
  \cup [kind : {"noPlan", "noResult", "throws"}, plan : {NoPlan}, message : {Null}]
  \cup [kind : {"failure"}, plan : {NoPlan}, message : Messages]

\* The risk scores the sentinel returns: no risk, the scores 0,0,2,2,2,2
\* whose weighted score is 1.0, a clarification, and all critical.
SentinelScores ==
  {[irreversibility |-> 0, external_impact |-> 0, financial |-> 0,
    safety |-> 0, missing_context |-> 0, policy_violation |-> 0],
   [irreversibility |-> 0, external_impact |-> 0, financial |-> 2,
    safety |-> 2, missing_context |-> 2, policy_violation |-> 2],
   [irreversibility |-> 2, external_impact |-> 2, financial |-> 2,
    safety |-> 2, missing_context |-> 2, policy_violation |-> 2],
   [irreversibility |-> 3, external_impact |-> 3, financial |-> 3,
    safety |-> 3, missing_context |-> 3, policy_violation |-> 3]}

\* A SentinelResult; risk_scores is Null when the response carries none.
\* risk_explanations is only displayed and is left out.
SentinelResult(risk_scores) == [risk_scores |-> risk_scores]

\* The outcomes of callAIAgent(planMessage, SENTINEL_AGENT_ID).
SentinelResponses ==
  [kind : {"scores"}, scores : {Some(s) : s \in SentinelScores}, message : {Null}]
  \cup [kind : {"noScores", "noResult", "throws"}, scores : {Null}, message : {Null}]
  \cup [kind : {"failure"}, scores : {Null}, message : Messages]

\* s without its i-th element
Remove(s, i) == SubSeq(s, 1, i - 1) \o SubSeq(s, i + 1, Len(s))

\* The useState initial values, no call in flight.
HomeStart ==
  /\ currentStep = 1
  /\ taskInput = <<>>
  /\ workerPlan = NoPlan
  /\ sentinelResult = Null
  /\ verdict = NoVerdict
  /\ loadingWorker = FALSE
  /\ loadingSentinel = FALSE
  /\ error = Null
  /\ showExplanations = FALSE
  /\ workerCalls = <<>>
  /\ sentinelCalls = <<>>
  /\ engineCalls = 0
  /\ plansReturned = {}
  /\ verdictPlan = NoPlan
  /\ staleWorker = <<>>
  /\ staleSentinel = <<>>
  /\ sinceReset = FALSE

(***************************************************************************)
(* The engine applied to every well-formed input.                          *)
(***************************************************************************)
EngineInit ==
  /\ scores \in RiskScores
  /\ result = NoVerdict
  /\ pc = "ready"
  /\ HomeStart

\* One call of calculateVerdict on the scores held.
Evaluate ==
  /\ pc = "ready"
  /\ result' = calculateVerdict(scores)
  /\ pc' = "returned"
  /\ UNCHANGED scores
  /\ UNCHANGED homeVars

\* The caller hands over the next RiskScores.
Supply ==
  /\ pc = "returned"
  /\ \E s \in RiskScores : scores' = s
  /\ result' = NoVerdict
  /\ pc' = "ready"
  /\ UNCHANGED homeVars

EngineNext == Evaluate \/ Supply

EngineSpec == EngineInit /\ [][EngineNext]_vars

(***************************************************************************)
(* The Home component                                                      *)
(***************************************************************************)
Init ==
  /\ HomeStart
  /\ scores = CHOOSE s \in RiskScores : \A f \in DOMAIN s : s[f] = 0
  /\ result = NoVerdict
  /\ pc = "ready"

\* onChange of the textarea, which is disabled while the worker is loading
\* and after step 1.
setTaskInput(value) ==
  /\ ~(loadingWorker \/ currentStep > 1)
  /\ taskInput' = value
  /\ UNCHANGED <<currentStep, workerPlan, sentinelResult, verdict,
                 loadingWorker, loadingSentinel, error, showExplanations,
                 workerCalls, sentinelCalls, engineCalls, plansReturned,
                 verdictPlan, staleWorker, staleSentinel, sinceReset>>
  /\ UNCHANGED engineVars

\* analyzeTask up to its await: the blank-input return, or the flags and
\* the call of the worker.
analyzeTask ==
  /\ IF Trim(taskInput) = <<>>
     THEN /\ error' = Some(ErrorNoTask)
          /\ UNCHANGED <<loadingWorker, workerCalls, staleWorker>>
     ELSE /\ loadingWorker' = TRUE
          /\ error' = Null
          /\ workerCalls' = Append(workerCalls, taskInput)
          /\ staleWorker' = Append(staleWorker, FALSE)
  /\ UNCHANGED <<currentStep, taskInput, workerPlan, sentinelResult, verdict,
                 loadingSentinel, showExplanations, sentinelCalls,
                 engineCalls, plansReturned, verdictPlan, staleSentinel,
                 sinceReset>>
  /\ UNCHANGED engineVars

\* The Analyze Task button, enabled by its disabled attribute.
AnalyzeButton ==
  /\ ~(loadingWorker \/ Trim(taskInput) = <<>> \/ currentStep > 1)
  /\ analyzeTask

\* WorkerResponds with setLoadingWorker(false) at the end of the try block.
WorkerResponds_NoFinally(i, r) ==
  /\ i \in 1..Len(workerCalls)
  /\ workerCalls' = Remove(workerCalls, i)
  /\ CASE r.kind = "plan" ->
            /\ workerPlan' = r.plan
            /\ currentStep' = 2
            /\ plansReturned' = plansReturned \cup {r.plan}
            /\ UNCHANGED error
       [] r.kind = "noPlan" ->
            /\ workerPlan' = NoPlan
            /\ currentStep' = 2
            /\ UNCHANGED <<error, plansReturned>>
       [] r.kind = "failure" ->
            /\ error' = MessageOr(r.message, ErrorNoPlan)
            /\ UNCHANGED <<workerPlan, currentStep, plansReturned>>
       [] r.kind \in {"noResult", "throws"} ->
            /\ error' = Some(ErrorNetwork)
            /\ UNCHANGED <<workerPlan, currentStep, plansReturned>>
  /\ loadingWorker' = (r.kind = "throws" /\ loadingWorker)
  /\ staleWorker' = Remove(staleWorker, i)
  /\ sinceReset' = (sinceReset /\ (r.kind \notin {"plan", "noPlan"} \/ staleWorker[i]))
  /\ UNCHANGED <<taskInput, sentinelResult, verdict, loadingSentinel,
                 showExplanations, sentinelCalls, engineCalls, verdictPlan,
                 staleSentinel>>
  /\ UNCHANGED engineVars

\* analyzeTask from its await on: the i-th worker call in flight ends with
\* the outcome r.
WorkerResponds(i, r) ==
  /\ i \in 1..Len(workerCalls)
  /\ workerCalls' = Remove(workerCalls, i)
  /\ CASE r.kind = "plan" ->
            /\ workerPlan' = r.plan
            /\ currentStep' = 2
            /\ plansReturned' = plansReturned \cup {r.plan}
            /\ UNCHANGED error
       [] r.kind = "noPlan" ->
            /\ workerPlan' = NoPlan
            /\ currentStep' = 2
            /\ UNCHANGED <<error, plansReturned>>
       [] r.kind = "failure" ->
            /\ error' = MessageOr(r.message, ErrorNoPlan)
            /\ UNCHANGED <<workerPlan, currentStep, plansReturned>>
       [] r.kind \in {"noResult", "throws"} ->
            /\ error' = Some(ErrorNetwork)
            /\ UNCHANGED <<workerPlan, currentStep, plansReturned>>
  /\ loadingWorker' = FALSE
  /\ staleWorker' = Remove(staleWorker, i)
  /\ sinceReset' = (sinceReset /\ (r.kind \notin {"plan", "noPlan"} \/ staleWorker[i]))
  /\ UNCHANGED <<taskInput, sentinelResult, verdict, loadingSentinel,
                 showExplanations, sentinelCalls, engineCalls, verdictPlan,
                 staleSentinel>>
  /\ UNCHANGED engineVars

\* evaluatePlan without its guard on workerPlan.
evaluatePlan_NoGuard ==
  /\ loadingSentinel' = TRUE
  /\ error' = Null
  /\ sentinelCalls' = Append(sentinelCalls, PlanMessage(workerPlan))
  /\ staleSentinel' = Append(staleSentinel, FALSE)
  /\ UNCHANGED <<currentStep, taskInput, workerPlan, sentinelResult,
                 verdict, loadingWorker, showExplanations, workerCalls,
                 engineCalls, plansReturned, verdictPlan, staleWorker,
                 sinceReset>>
  /\ UNCHANGED engineVars

\* evaluatePlan up to its await: the return when no plan is held, or the
\* flags and the call of the sentinel.
evaluatePlan ==
  /\ IF workerPlan = NoPlan
     THEN UNCHANGED homeVars
     ELSE /\ loadingSentinel' = TRUE
          /\ error' = Null
          /\ sentinelCalls' = Append(sentinelCalls, PlanMessage(workerPlan))
          /\ staleSentinel' = Append(staleSentinel, FALSE)
          /\ UNCHANGED <<currentStep, taskInput, workerPlan, sentinelResult,
                         verdict, loadingWorker, showExplanations, workerCalls,
                         engineCalls, plansReturned, verdictPlan, staleWorker,
                         sinceReset>>
  /\ UNCHANGED engineVars

\* The Evaluate Plan button: rendered when a plan is held and the worker is
\* not loading, enabled by its disabled attribute.
EvaluateButton ==
  /\ workerPlan # NoPlan /\ ~loadingWorker
  /\ ~(loadingSentinel \/ currentStep > 2)
  /\ evaluatePlan

\* evaluatePlan called while no plan is held.
EvaluateWithoutPlan ==
  /\ workerPlan = NoPlan
  /\ evaluatePlan

\* One more call of calculateVerdict.
Counted(n) == IF n < MaxEngineCalls THEN n + 1 ELSE n

\* SentinelResponds with setCurrentStep(3) moved to the finally block.
SentinelResponds_AlwaysAdvances(i, r) ==
  /\ i \in 1..Len(sentinelCalls)
  /\ sentinelCalls' = Remove(sentinelCalls, i)
  /\ CASE r.kind = "scores" ->
            /\ sentinelResult' = Some(SentinelResult(r.scores))
            /\ verdict' = calculateVerdict(r.scores[1])
            /\ engineCalls' = Counted(engineCalls)
            /\ UNCHANGED error
       [] r.kind = "noScores" ->
            /\ sentinelResult' = Some(SentinelResult(Null))
            /\ engineCalls' = Counted(engineCalls)
            /\ error' = Some(ErrorNetwork)
            /\ UNCHANGED verdict
       [] r.kind = "noResult" ->
            /\ sentinelResult' = Null
            /\ error' = Some(ErrorNetwork)
            /\ UNCHANGED <<verdict, engineCalls>>
       [] r.kind = "failure" ->
            /\ error' = MessageOr(r.message, ErrorNoEval)
            /\ UNCHANGED <<sentinelResult, verdict, engineCalls>>
       [] r.kind = "throws" ->
            /\ error' = Some(ErrorNetwork)
            /\ UNCHANGED <<sentinelResult, verdict, engineCalls>>
  /\ currentStep' = 3
  /\ loadingSentinel' = FALSE
  /\ verdictPlan' = IF r.kind = "scores" THEN sentinelCalls[i].plan ELSE verdictPlan
  /\ staleSentinel' = Remove(staleSentinel, i)
  /\ sinceReset' = (sinceReset /\ (r.kind # "scores" \/ staleSentinel[i]))
  /\ UNCHANGED <<taskInput, workerPlan, loadingWorker, showExplanations,
                 workerCalls, plansReturned, staleWorker>>
  /\ UNCHANGED engineVars

\* evaluatePlan from its await on: the i-th sentinel call in flight ends
\* with the outcome r.  A result without risk_scores is stored before
\* calculateVerdict throws on it; a response without a result is stored as
\* undefined before reading its risk_scores throws.
SentinelResponds(i, r) ==
  /\ i \in 1..Len(sentinelCalls)
  /\ sentinelCalls' = Remove(sentinelCalls, i)
  /\ CASE r.kind = "scores" ->
            /\ sentinelResult' = Some(SentinelResult(r.scores))
            /\ verdict' = calculateVerdict(r.scores[1])
            /\ engineCalls' = Counted(engineCalls)
            /\ currentStep' = 3
            /\ UNCHANGED error
       [] r.kind = "noScores" ->
            /\ sentinelResult' = Some(SentinelResult(Null))
            /\ engineCalls' = Counted(engineCalls)
            /\ error' = Some(ErrorNetwork)
            /\ UNCHANGED <<verdict, currentStep>>
       [] r.kind = "noResult" ->
            /\ sentinelResult' = Null
            /\ error' = Some(ErrorNetwork)
            /\ UNCHANGED <<verdict, currentStep, engineCalls>>
       [] r.kind = "failure" ->
            /\ error' = MessageOr(r.message, ErrorNoEval)
            /\ UNCHANGED <<sentinelResult, verdict, currentStep, engineCalls>>
       [] r.kind = "throws" ->
            /\ error' = Some(ErrorNetwork)
            /\ UNCHANGED <<sentinelResult, verdict, currentStep, engineCalls>>
  /\ loadingSentinel' = FALSE
  /\ verdictPlan' = IF r.kind = "scores" THEN sentinelCalls[i].plan ELSE verdictPlan
  /\ staleSentinel' = Remove(staleSentinel, i)
  /\ sinceReset' = (sinceReset /\ (r.kind # "scores" \/ staleSentinel[i]))
  /\ UNCHANGED <<taskInput, workerPlan, loadingWorker, showExplanations,
                 workerCalls, plansReturned, staleWorker>>
  /\ UNCHANGED engineVars

\* handleReset that also clears the loading flags.
handleReset_ClearsLoading ==
  /\ currentStep' = 1
  /\ taskInput' = <<>>
  /\ workerPlan' = NoPlan
  /\ sentinelResult' = Null
  /\ verdict' = NoVerdict
  /\ error' = Null
  /\ showExplanations' = FALSE
  /\ verdictPlan' = NoPlan
  /\ staleWorker' = [k \in DOMAIN staleWorker |-> TRUE]
  /\ staleSentinel' = [k \in DOMAIN staleSentinel |-> TRUE]
  /\ sinceReset' = TRUE
  /\ loadingWorker' = FALSE
  /\ loadingSentinel' = FALSE
  /\ UNCHANGED <<workerCalls, sentinelCalls, engineCalls, plansReturned>>
  /\ UNCHANGED engineVars

\* The Reset button, always enabled.
handleReset ==
  /\ currentStep' = 1
  /\ taskInput' = <<>>
  /\ workerPlan' = NoPlan
  /\ sentinelResult' = Null
  /\ verdict' = NoVerdict
  /\ error' = Null
  /\ showExplanations' = FALSE
  /\ verdictPlan' = NoPlan
  /\ staleWorker' = [k \in DOMAIN staleWorker |-> TRUE]
  /\ staleSentinel' = [k \in DOMAIN staleSentinel |-> TRUE]
  /\ sinceReset' = TRUE
  /\ UNCHANGED <<loadingWorker, loadingSentinel, workerCalls, sentinelCalls,
                 engineCalls, plansReturned>>
  /\ UNCHANGED engineVars

\* The explanations toggle of the verdict panel, which is rendered when a
\* verdict and a sentinel result are held and the sentinel is not loading.
ToggleExplanations ==
  /\ verdict # NoVerdict /\ sentinelResult # Null /\ ~loadingSentinel
  /\ showExplanations' = ~showExplanations
  /\ UNCHANGED <<currentStep, taskInput, workerPlan, sentinelResult, verdict,
                 loadingWorker, loadingSentinel, error, workerCalls,
                 sentinelCalls, engineCalls, plansReturned, verdictPlan,
                 staleWorker, staleSentinel, sinceReset>>
  /\ UNCHANGED engineVars

\* The operator types into the textarea.
TypeTask == \E value \in TaskInputs : setTaskInput(value)

\* A worker call in flight ends, with any outcome.
WorkerCallEnds ==
  \E i \in 1..Len(workerCalls), r \in WorkerResponses : WorkerResponds(i, r)

\* A sentinel call in flight ends, with any outcome.
SentinelCallEnds ==
  \E i \in 1..Len(sentinelCalls), r \in SentinelResponses : SentinelResponds(i, r)

Next ==
  \/ TypeTask
  \/ AnalyzeButton
  \/ WorkerCallEnds
  \/ EvaluateButton
  \/ EvaluateWithoutPlan
  \/ SentinelCallEnds
  \/ handleReset
  \/ ToggleExplanations

Spec == Init /\ [][Next]_vars

\* analyzeTask called while the task description is blank.
AnalyzeWithoutTask ==
  /\ Trim(taskInput) = <<>>
  /\ analyzeTask

\* The component with its handlers also called where their buttons are
\* disabled, and with every call of callAIAgent returning or throwing.
HandlerNext ==
  \/ TypeTask
  \/ AnalyzeButton
  \/ AnalyzeWithoutTask
  \/ WorkerCallEnds
  \/ EvaluateButton
  \/ EvaluateWithoutPlan
  \/ SentinelCallEnds
  \/ handleReset
  \/ ToggleExplanations

\* SentinelCallEnds with the rejected promise as its first case: the same
\* steps, and an enabling condition settled without a verdict calculation.
SentinelCallSettles ==
  \/ \E i \in 1..Len(sentinelCalls) :
       SentinelResponds(i, [kind |-> "throws", scores |-> Null, message |-> Null])
  \/ SentinelCallEnds

\* Every call of callAIAgent in flight returns or throws.
FairSpec ==
  /\ Init
  /\ [][HandlerNext]_vars
  /\ WF_vars(WorkerCallEnds)
  /\ WF_vars(SentinelCallSettles)

(***************************************************************************)
(* Properties of calculateVerdict                                          *)
(***************************************************************************)
Returned == pc = "returned"

\* One of the three hard overrides holds of s.
Override(s) ==
  \/ s.safety >= 3
  \/ s.irreversibility >= 3 /\ s.external_impact >= 2
  \/ s.policy_violation >= 3

\* The weighted score of s in exact arithmetic, in hundredths.
Hundredths(s) ==
  25 * s.irreversibility + 25 * s.external_impact + 15 * s.financial
  + 20 * s.safety + 10 * s.missing_context + 5 * s.policy_violation

AllScores(n) ==
  [irreversibility |-> n, external_impact |-> n, financial |-> n,
   safety |-> n, missing_context |-> n, policy_violation |-> n]

\* |a - b|
BigDist(a, b) == IF BigLess(a, b) THEN BigSub(b, a) ELSE BigSub(a, b)

\* C1: calculateVerdict is total: on every RiskScores with all six
\* dimensions in 0..3 the call returns a Verdict, and its type is one of
\* the five verdict types.
C1_Total ==
  Returned => result # NoVerdict /\ result.type \in VerdictType

C1_Witness ==
  Returned /\ result.type = "ASK_FOR_CLARIFICATION"

\* C2: whenever safety >= 3 the verdict is BLOCK with confidence 100,
\* weightedScore 0 and the safety rule as its only triggered rule, whatever
\* the other five dimensions are.
C2_SafetyOverride ==
  Returned /\ scores.safety >= 3
    => result = Verdict("BLOCK", Hundred, BigZero, <<RuleSafety>>)

C2_Witness ==
  Returned /\ scores = AllScores(3) /\ result.triggeredRules = <<RuleSafety>>

\* C3: whenever irreversibility >= 3, external_impact >= 2 and safety < 3
\* the verdict is BLOCK with confidence 100, weightedScore 0 and the
\* irreversibility/external-impact rule alone, also when
\* policy_violation >= 3.
C3_IrreversibleOverride ==
  Returned /\ scores.irreversibility >= 3 /\ scores.external_impact >= 2
           /\ scores.safety < 3
    => result = Verdict("BLOCK", Hundred, BigZero, <<RuleIrreversible>>)

C3_Witness ==
  /\ Returned
  /\ scores.irreversibility = 3 /\ scores.external_impact = 2
  /\ scores.safety < 3 /\ scores.policy_violation = 3
  /\ result.triggeredRules = <<RuleIrreversible>>

\* C4: whenever policy_violation >= 3 and neither the safety override nor
\* the irreversibility/external-impact override holds, the verdict is BLOCK
\* with confidence 100, weightedScore 0 and the policy rule alone.
C4_PolicyOverride ==
  Returned /\ scores.policy_violation >= 3 /\ scores.safety < 3
           /\ ~(scores.irreversibility >= 3 /\ scores.external_impact >= 2)
    => result = Verdict("BLOCK", Hundred, BigZero, <<RulePolicy>>)

C4_Witness ==
  /\ Returned
  /\ scores = [AllScores(0) EXCEPT !.policy_violation = 3]
  /\ result.type = "BLOCK"

\* C5: when no hard override fires, the returned weightedScore is the
\* number (25*irr + 25*ext + 15*fin + 20*saf + 10*mis + 5*pol) / 100, i.e.
\* the double that denotes that many hundredths.
C5_WeightedScoreExact ==
  Returned /\ ~Override(scores)
    => result.weightedScore = FDiv(FromInt(Hundredths(scores)), 100)

\* C6: when no hard override fires, the returned confidence is
\* 100 - (weightedScore / 3) * 100 clamped to 0..100, of the returned
\* weightedScore: the value of that expression in double arithmetic, which
\* is within 2^-46 (one unit in the last place of a double below 100) of
\* its value in exact arithmetic; and every returned confidence, override
\* or not, lies in 0..100.
C6_Confidence ==
  Returned =>
    /\ BigLeq(BigZero, result.confidence)
    /\ BigLeq(result.confidence, Hundred)
    /\ ~Override(scores) =>
         /\ result.confidence =
              FMin(Hundred, FSub(Hundred, FMul(FDiv(result.weightedScore, 3), 100)))
         /\ BigLeq(BigDist(BigAdd(BigMulSmall(result.confidence, 3),
                                 BigMulSmall(result.weightedScore, 100)),
                          FromInt(300)),
                  <<3 * 2^12, 0, 0, 0>>)

C6_Witness ==
  /\ Returned /\ ~Override(scores)
  /\ Hundredths(scores) = 250
  /\ BigLess(result.confidence, FromInt(17))
  /\ BigLess(FromInt(16), result.confidence)

\* C7: when no hard override fires, the weighted score is at least 1.5
\* and missing_context >= 2, the verdict is ASK_FOR_CLARIFICATION with the
\* rule 'Missing Context >= 2', however high the weighted score is.
C7_MissingContextFirst ==
  Returned /\ ~Override(scores) /\ Hundredths(scores) >= 150
           /\ scores.missing_context >= 2
    => /\ result.type = "ASK_FOR_CLARIFICATION"
       /\ result.triggeredRules = <<RuleMissing>>

C7_Witness ==
  /\ Returned /\ ~Override(scores)
  /\ Hundredths(scores) >= 200 /\ scores.missing_context >= 2
  /\ ~BigLess(result.weightedScore, ModifyBelow)
  /\ result.type = "ASK_FOR_CLARIFICATION"

\* C8: when no hard override fires and the weighted score is below 1.0 the
\* verdict is APPROVE with the single rule 'Weighted score < 1.0'; the
\* all-zero input gives APPROVE, weightedScore 0, confidence 100, one rule.
C8_Approve ==
  /\ Returned /\ ~Override(scores) /\ Hundredths(scores) < 100
       => /\ result.type = "APPROVE"
          /\ result.triggeredRules = <<RuleBelow10>>
  /\ Returned /\ scores = AllScores(0)
       => result = Verdict("APPROVE", Hundred, BigZero, <<RuleBelow10>>)

C8_Witness ==
  Returned /\ scores = AllScores(0) /\ result.type = "APPROVE"

\* C9: when no hard override fires and 1.0 <= weighted score < 1.5 the
\* verdict is APPROVE_WITH_NOTICE; a weighted score of exactly 1.0 gives
\* APPROVE_WITH_NOTICE and not APPROVE.
C9_ApproveWithNotice ==
  Returned /\ ~Override(scores)
           /\ 100 <= Hundredths(scores) /\ Hundredths(scores) < 150
    => result.type = "APPROVE_WITH_NOTICE"

\* C10: when no hard override fires, missing_context < 2 and
\* 1.5 <= weighted score < 2.0 the verdict is MODIFY; a weighted score of
\* exactly 1.5 with missing_context < 2 gives MODIFY.
C10_Modify ==
  Returned /\ ~Override(scores) /\ scores.missing_context < 2
           /\ 150 <= Hundredths(scores) /\ Hundredths(scores) < 200
    => result.type = "MODIFY"

C10_Witness ==
  /\ Returned /\ ~Override(scores) /\ scores.missing_context < 2
  /\ Hundredths(scores) = 150
  /\ result.weightedScore = NoticeBelow
  /\ result.type = "MODIFY"

\* C11: when no hard override fires, missing_context < 2 and the weighted
\* score is at least 2.0, the verdict is BLOCK with the rule
\* 'Weighted score >= 2.0' and the computed, non-zero weightedScore and
\* confidence; a weighted score of exactly 2.0 gives BLOCK, not MODIFY.
C11_BlockAtTwo ==
  Returned /\ ~Override(scores) /\ scores.missing_context < 2
           /\ Hundredths(scores) >= 200
    => /\ result.type = "BLOCK"
       /\ result.triggeredRules = <<RuleAtLeast20>>
       /\ result.weightedScore = WeightedScore(scores)
       /\ ~BigLess(result.weightedScore, ModifyBelow)
       /\ result.confidence = Confidence(result.weightedScore)
       /\ BigLess(BigZero, result.confidence)
       /\ BigLess(result.confidence, Hundred)

C11_Witness ==
  /\ Returned /\ ~Override(scores) /\ scores.missing_context < 2
  /\ Hundredths(scores) = 200
  /\ result.weightedScore = ModifyBelow
  /\ result.type = "BLOCK"

\* C12: the missing-context rule is consulted only after the 1.0 and 1.5
\* thresholds: when no hard override fires and the weighted score is below
\* 1.5 the verdict is APPROVE or APPROVE_WITH_NOTICE, never
\* ASK_FOR_CLARIFICATION, also when missing_context is 2 or 3; the input
\* irr=1 ext=1 fin=1 saf=0 mis=3 pol=0 gives APPROVE.
C12_MissingContextLate ==
  /\ Returned /\ ~Override(scores) /\ Hundredths(scores) < 150
       => result.type \in {"APPROVE", "APPROVE_WITH_NOTICE"}
  /\ Returned /\ scores = [irreversibility |-> 1, external_impact |-> 1,
                           financial |-> 1, safety |-> 0,
                           missing_context |-> 3, policy_violation |-> 0]
       => result.type = "APPROVE" /\ Hundredths(scores) = 95

C12_Witness ==
  /\ Returned /\ ~Override(scores)
  /\ scores.missing_context = 3 /\ Hundredths(scores) = 95
  /\ result.type = "APPROVE"

\* The rule the claim C13 expects: the first, in the fixed order, whose
\* condition holds of s, the weighted score taken in exact arithmetic.
FirstRule(s) ==
  IF s.safety >= 3 THEN RuleSafety
  ELSE IF s.irreversibility >= 3 /\ s.external_impact >= 2 THEN RuleIrreversible
  ELSE IF s.policy_violation >= 3 THEN RulePolicy
  ELSE IF Hundredths(s) < 100 THEN RuleBelow10
  ELSE IF Hundredths(s) < 150 THEN RuleBelow15
  ELSE IF s.missing_context >= 2 THEN RuleMissing
  ELSE IF Hundredths(s) < 200 THEN RuleBelow20
  ELSE RuleAtLeast20

\* C13: every returned Verdict has exactly one triggered rule, and it names
\* the first rule, in the order safety, irreversibility/external impact,
\* policy, score < 1.0, score < 1.5, missing context >= 2, score < 2.0,
\* score >= 2.0, whose condition the input satisfies.
C13_FirstRule ==
  Returned => result.triggeredRules = <<FirstRule(scores)>>

\* C14: the returned weightedScore lies in 0..3, and it is 0 whenever a
\* hard override fired.
C14_ScoreRange ==
  Returned =>
    /\ BigLeq(BigZero, result.weightedScore)
    /\ BigLeq(result.weightedScore, FromInt(3))
    /\ Override(scores) => result.weightedScore = BigZero

C14_Witness ==
  /\ Returned /\ Override(scores) /\ scores.safety < 3
  /\ Hundredths(scores) >= 250
  /\ result.weightedScore = BigZero

\* Every (weightedScore, confidence) that calculateVerdict returns on a
\* well-formed input.
Outcomes ==
  {[weightedScore |-> calculateVerdict(s).weightedScore,
    confidence |-> calculateVerdict(s).confidence] : s \in RiskScores}

\* C16: confidence is strictly decreasing in weightedScore: of the verdicts
\* of any two well-formed inputs, the one with the larger returned
\* weightedScore has the strictly smaller confidence; weightedScore 0 has
\* confidence 100 and weightedScore 3.0 has confidence 0.
C16_ConfidenceDecreasing ==
  Returned =>
    /\ result.weightedScore = BigZero => result.confidence = Hundred
    /\ Confidence(FromInt(3)) = BigZero
    /\ \A o \in Outcomes :
         BigLess(result.weightedScore, o.weightedScore)
           => BigLess(o.confidence, result.confidence)

\* C17: no verdict on an input with irreversibility, safety or
\* policy_violation at 3 is APPROVE or APPROVE_WITH_NOTICE.
C17_NoDilution ==
  Returned /\ (scores.irreversibility = 3 \/ scores.safety = 3
               \/ scores.policy_violation = 3)
    => result.type \notin {"APPROVE", "APPROVE_WITH_NOTICE"}

\* C17 as amended: no verdict on an input with safety or policy_violation
\* at 3, or with irreversibility at 3 and external_impact at least 2, is
\* APPROVE or APPROVE_WITH_NOTICE.
C17_NoDilutionAmended ==
  Returned /\ (scores.safety = 3 \/ scores.policy_violation = 3
               \/ (scores.irreversibility = 3 /\ scores.external_impact >= 2))
    => result.type \notin {"APPROVE", "APPROVE_WITH_NOTICE"}

C17_Witness ==
  /\ Returned
  /\ scores = [AllScores(0) EXCEPT !.irreversibility = 3, !.external_impact = 2]
  /\ result.type = "BLOCK"

(***************************************************************************)
(* Properties of the Home component                                        *)
(***************************************************************************)
\* A worker call ends with a failure response or a rejected promise.
WorkerFails ==
  \E i \in 1..Len(workerCalls), r \in WorkerResponses :
    r.kind \in {"failure", "throws"} /\ WorkerResponds(i, r)

\* A sentinel call ends with a failure response or a rejected promise.
SentinelFails ==
  \E i \in 1..Len(sentinelCalls), r \in SentinelResponses :
    r.kind \in {"failure", "throws"} /\ SentinelResponds(i, r)

\* C18: a failure at either stage aborts the pipeline: in the step in which
\* a worker or sentinel call returns a non-success result or throws,
\* calculateVerdict is not called, the verdict stored is unchanged,
\* currentStep does not change, and the error becomes non-null.
C18_FailureAborts ==
  [][WorkerFails \/ SentinelFails
       => /\ engineCalls' = engineCalls
          /\ verdict' = verdict
          /\ currentStep' = currentStep
          /\ error' # Null]_vars

C18_Witness ==
  /\ error = Some(ErrorNoEval)
  /\ currentStep = 2 /\ workerPlan # NoPlan
  /\ verdict = NoVerdict /\ engineCalls = 0
  /\ ~loadingSentinel /\ sentinelCalls = <<>>

\* C19: stage 1 completes before stage 2 begins: a sentinel call is issued
\* only in a state in which a plan returned by an earlier successful worker
\* call is held and no worker call is in flight, and it carries that plan;
\* evaluatePlan called with no plan held issues no call and changes nothing.
C19_StageOrder ==
  [][/\ sentinelCalls' # sentinelCalls /\ Len(sentinelCalls') >= Len(sentinelCalls)
          => /\ workerPlan \in plansReturned
             /\ workerCalls = <<>> /\ ~loadingWorker
             /\ sentinelCalls' = Append(sentinelCalls, PlanMessage(workerPlan))
     /\ workerPlan = NoPlan /\ evaluatePlan => UNCHANGED vars]_vars

C19_Witness ==
  /\ sentinelCalls # <<>> /\ loadingSentinel
  /\ workerPlan # NoPlan /\ sentinelCalls[1] = PlanMessage(workerPlan)
  /\ workerCalls = <<>>

\* C20: at most one call of callAIAgent, worker or sentinel, is in flight
\* at any time.
C20_SingleCall ==
  Len(workerCalls) + Len(sentinelCalls) <= 1

\* C21: in every reachable state in which a verdict is held, a sentinel
\* result is held too and the verdict is calculateVerdict of its risk_scores.
C21_VerdictOfResult ==
  verdict # NoVerdict
    => /\ sentinelResult # Null
       /\ sentinelResult[1].risk_scores # Null
       /\ verdict = calculateVerdict(sentinelResult[1].risk_scores[1])

\* A sentinel call ends with anything but well-formed risk scores, so that
\* evaluatePlan reports an error.
SentinelErrors ==
  \E i \in 1..Len(sentinelCalls), r \in SentinelResponses :
    r.kind # "scores" /\ SentinelResponds(i, r)

\* C22: whenever evaluatePlan ends by reporting an error (call rejected,
\* failure response, or success response without a result or without
\* risk_scores), sentinelResult and verdict are what they were before, and
\* a sentinelResult is never held without a verdict.
C22_NoPartialEvaluation ==
  /\ [][SentinelErrors
          => sentinelResult' = sentinelResult /\ verdict' = verdict]_vars
  /\ [](sentinelResult # Null => verdict # NoVerdict)

\* A worker call ends with a failure response carrying the message m.
WorkerFailsWith(m) ==
  \E i \in 1..Len(workerCalls) :
    WorkerResponds(i, [kind |-> "failure", plan |-> NoPlan, message |-> m])

\* A sentinel call ends with a failure response carrying the message m.
SentinelFailsWith(m) ==
  \E i \in 1..Len(sentinelCalls) :
    SentinelResponds(i, [kind |-> "failure", scores |-> Null, message |-> m])

\* C23: when a worker or sentinel call reports failure with a message
\* string, the error becomes that message and calculateVerdict is not
\* called.
C23_MessageVerbatim ==
  [][\A m \in Messages \ {Null} :
       WorkerFailsWith(m) \/ SentinelFailsWith(m)
         => error' = m /\ engineCalls' = engineCalls]_vars

\* C23 as amended: when a worker or sentinel call reports failure with a
\* non-empty message string, the error becomes that message and
\* calculateVerdict is not called.
C23_MessageVerbatimAmended ==
  [][\A m \in Messages \ {Null, Some("")} :
       WorkerFailsWith(m) \/ SentinelFailsWith(m)
         => error' = m /\ engineCalls' = engineCalls]_vars

C23_Witness ==
  /\ error = Some("agent unavailable")
  /\ currentStep = 2 /\ workerPlan # NoPlan
  /\ ~loadingSentinel /\ sentinelCalls = <<>>
  /\ engineCalls = 0

\* C24: whenever a plan and a verdict are both held, the verdict was
\* computed from the response of the sentinel call that carried that plan.
C24_VerdictOfPlan ==
  workerPlan # NoPlan /\ verdict # NoVerdict => verdictPlan = workerPlan

\* C25: once handleReset has run, currentStep stays 1 and workerPlan,
\* sentinelResult and verdict stay null until a call started after the
\* reset completes successfully.
C25_StaleResponseIgnored ==
  sinceReset
    => /\ currentStep = 1
       /\ workerPlan = NoPlan
       /\ sentinelResult = Null
       /\ verdict = NoVerdict

\* C26: currentStep = 1 implies workerPlan and verdict are null,
\* currentStep = 2 implies workerPlan is non-null and verdict is null,
\* currentStep = 3 implies workerPlan, sentinelResult and verdict are all
\* non-null.
C26_StepAgreesWithData ==
  /\ currentStep = 1 => workerPlan = NoPlan /\ verdict = NoVerdict
  /\ currentStep = 2 => workerPlan # NoPlan /\ verdict = NoVerdict
  /\ currentStep = 3 => /\ workerPlan # NoPlan
                        /\ sentinelResult # Null
                        /\ verdict # NoVerdict

\* The verdict type of every well-formed input.
VerdictTypes == [s \in RiskScores |-> calculateVerdict(s).type]

\* The well-formed inputs that are at least s in every dimension.
Raised(s) ==
  [irreversibility  : s.irreversibility..MaxScore,
   external_impact  : s.external_impact..MaxScore,
   financial        : s.financial..MaxScore,
   safety           : s.safety..MaxScore,
   missing_context  : s.missing_context..MaxScore,
   policy_violation : s.policy_violation..MaxScore]

\* C27: if calculateVerdict(s) is BLOCK and every dimension of t is at
\* least that of s, calculateVerdict(t) is BLOCK.
C27_BlockStable ==
  Returned /\ result.type = "BLOCK"
    => \A t \in Raised(scores) : VerdictTypes[t] = "BLOCK"

\* C27 as amended: if calculateVerdict(s) is BLOCK and every dimension of t
\* is at least that of s, calculateVerdict(t) is BLOCK, or it is
\* ASK_FOR_CLARIFICATION where missing_context of t is at least 2 and no
\* hard override holds of t.
C27_BlockStableAmended ==
  Returned /\ result.type = "BLOCK"
    => \A t \in Raised(scores) :
         \/ VerdictTypes[t] = "BLOCK"
         \/ /\ t.missing_context >= 2 /\ ~Override(t)
            /\ VerdictTypes[t] = "ASK_FOR_CLARIFICATION"

C27_Witness ==
  /\ Returned /\ result.type = "BLOCK"
  /\ ~Override(scores) /\ scores.missing_context = 1
  /\ VerdictTypes[[scores EXCEPT !.missing_context = 2]] = "ASK_FOR_CLARIFICATION"

\* C28: off the override path the weighted score returned never exceeds
\* 2.5; no verdict returned has confidence 0 or a weightedScore of 2.8 or
\* 3.0, and no confidence returned is below 100 - 250/3.
C28_Ceiling ==
  Returned
    => /\ ~Override(scores)
            => /\ Hundredths(scores) <= 250
               /\ BigLeq(result.weightedScore, FDiv(FromInt(5), 2))
       /\ result.confidence # BigZero
       /\ result.weightedScore
            \notin {FDiv(FromInt(28), 10), FromInt(3)}
       /\ BigLeq(FSub(Hundred, FDiv(FromInt(250), 3)),
                 result.confidence)

\* C29: handleReset, from any state, sets currentStep to 1, taskInput to
\* the empty string, workerPlan, sentinelResult, verdict and error to null
\* and showExplanations to false, and leaves loadingWorker and
\* loadingSentinel unchanged.
C29_ResetFrame ==
  [][handleReset
       => /\ currentStep' = 1
          /\ taskInput' = <<>>
          /\ workerPlan' = NoPlan
          /\ sentinelResult' = Null
          /\ verdict' = NoVerdict
          /\ error' = Null
          /\ showExplanations' = FALSE
          /\ loadingWorker' = loadingWorker
          /\ loadingSentinel' = loadingSentinel]_vars

C29_Witness ==
  /\ sinceReset
  /\ currentStep = 1 /\ taskInput = <<>> /\ workerPlan = NoPlan
  /\ sentinelResult = Null /\ verdict = NoVerdict /\ error = Null
  /\ ~showExplanations
  /\ loadingSentinel /\ sentinelCalls # <<>>

\* C30: loadingWorker (loadingSentinel) is true exactly while a worker
\* (sentinel) call is in flight; the step in which a call ends, whatever
\* its outcome, sets its flag to false, and a raised flag is eventually
\* lowered; analyzeTask on blank input sets the error 'Please enter a task
\* description' and neither raises the flag nor issues a call.
C30_LoadingTracksCalls ==
  /\ [](loadingWorker <=> workerCalls # <<>>)
  /\ [](loadingSentinel <=> sentinelCalls # <<>>)
  /\ [][/\ WorkerCallEnds => ~loadingWorker'
        /\ SentinelCallEnds => ~loadingSentinel'
        /\ AnalyzeWithoutTask
             => /\ error' = Some(ErrorNoTask)
                /\ loadingWorker' = loadingWorker
                /\ workerCalls' = workerCalls
                /\ sentinelCalls' = sentinelCalls]_vars
  /\ loadingWorker ~> ~loadingWorker
  /\ loadingSentinel ~> ~loadingSentinel

C30_Witness ==
  /\ error = Some(ErrorNoTask)
  /\ ~loadingWorker /\ workerCalls = <<>>
  /\ loadingSentinel /\ sentinelCalls # <<>>

====
